---- MODULE Spec2Model ----
(***************************************************************************)
(* Model of pkg/noderesourcetopology/plugin.go:                            *)
(*   - subtractFromNUMAs, the zone-by-zone subtraction of a resource       *)
(*     request from a NUMA node list, one step per loop iteration;         *)
(*   - New, the construction of the TopologyMatch plugin, with the         *)
(*     methods of the constructed plugin.                                  *)
(* Quantities are resource.Quantity values in their int64 form, modelled   *)
(* as integers of one unit per resource kind (Cmp, Sub and IsZero are      *)
(* exact on them; the arbitrary-precision form is not modelled).  A        *)
(* v1.ResourceList is a function whose domain is the set of resource kinds *)
(* it has an entry for.  Zone indices in the order are valid indices of    *)
(* the node list.                                                          *)
(***************************************************************************)
EXTENDS Integers, Sequences, FiniteSets, TLC

\* ---- bounds of the model ----
NumZones == 2
MaxAvail == 2
MaxReq == 3
MaxOrderLen == 2

Kinds == {"cpu", "memory"}
Zones == 0 .. (NumZones - 1)

VARIABLES
    resources,   \* the request: v1.ResourceList argument of subtractFromNUMAs
    numaNodes,   \* the NUMANodeList argument, mutated in place
    nodes,       \* the variadic zone order
    numaNodes0,  \* history: numaNodes as it was when the call was entered
    todo,        \* resource kinds the outer range has not visited yet
    resName,     \* outer loop variable
    quantity,    \* outer loop variable, a copy of resources[resName]
    idx,         \* position of the inner loop in nodes (1-based)
    remaining,   \* history: quantity of each kind when its inner loop ended
    decision,    \* result of the Single-NUMA-Node filter for the request
    pc,          \* position of the evaluation
    args,        \* arguments of New
    plugin,      \* the plugin New returned, or NoPlugin
    err,         \* the error New returned, or NoError
    ret          \* value returned by the last method call on the plugin

vars == <<resources, numaNodes, nodes, numaNodes0, todo, resName, quantity, idx,
          remaining, decision, pc, args, plugin, err, ret>>

subVars == <<resources, numaNodes, nodes, numaNodes0, todo, resName, quantity, idx,
             remaining, decision, pc>>
newVars == <<args, plugin, err, ret>>

\* ------------------------------------------------------------------------
\* resource.Quantity arithmetic used by subtractFromNUMAs
\* ------------------------------------------------------------------------
IsZero(q) == q = 0

Cmp(q, y) == IF q = y THEN 0 ELSE IF q > y THEN 1 ELSE -1

Sub(q, y) == q - y

\* nRes[resName] = value, on a Go map
\* variant: an exhausted entry is deleted instead of set to zero
setResource_drops_zero(nRes, name, value) ==
    IF value = 0
    THEN [x \in (DOMAIN nRes) \ {name} |-> nRes[x]]
    ELSE [x \in (DOMAIN nRes) \cup {name} |-> IF x = name THEN value ELSE nRes[x]]

setResource(nRes, name, value) ==
    [x \in (DOMAIN nRes) \cup {name} |-> IF x = name THEN value ELSE nRes[x]]

\* variant: case 1 zeroes the zone without reducing the request
SwitchCmp_more_keeps_request(q, available) ==
    IF Cmp(q, available) = -1
    THEN [quantity |-> 0, available |-> Sub(available, q)]
    ELSE IF Cmp(q, available) = 1
         THEN [quantity |-> q, available |-> 0]
         ELSE [quantity |-> Sub(q, available), available |-> 0]

\* variant: case 1 zeroes the request as case -1 does
SwitchCmp_more_zeroes_request(q, available) ==
    IF Cmp(q, available) = -1
    THEN [quantity |-> 0, available |-> Sub(available, q)]
    ELSE [quantity |-> 0, available |-> 0]

\* variant: case 1 subtracts the request from the zone instead of zeroing it
SwitchCmp_more_zone_negative(q, available) ==
    IF Cmp(q, available) = -1
    THEN [quantity |-> 0, available |-> Sub(available, q)]
    ELSE [quantity |-> Sub(q, available), available |-> Sub(available, q)]

\* variant: case -1 does not zero the request
SwitchCmp_less_keeps_request(q, available) ==
    IF Cmp(q, available) = -1
    THEN [quantity |-> q, available |-> Sub(available, q)]
    ELSE [quantity |-> Sub(q, available), available |-> 0]

\* The switch of the inner loop body: the new (quantity, available) pair.
SwitchCmp(q, available) ==
    IF Cmp(q, available) = 0
    THEN [quantity |-> Sub(q, available), available |-> 0]
    ELSE IF Cmp(q, available) = 1
         THEN [quantity |-> Sub(q, available), available |-> 0]
         ELSE [quantity |-> 0, available |-> Sub(available, q)]

\* ------------------------------------------------------------------------
\* subtractFromNUMAs as a function: the inner loop for one resource kind,
\* then the outer range over the request.
\* ------------------------------------------------------------------------
RECURSIVE zoneLoop(_, _, _, _, _)
zoneLoop(q, nn, name, order, i) ==
    IF i > Len(order) \/ IsZero(q)
    THEN [quantity |-> q, numaNodes |-> nn]
    ELSE LET node == order[i]
             nRes == nn[node].Resources
         IN IF name \in DOMAIN nRes
            THEN LET r == SwitchCmp(q, nRes[name])
                 IN zoneLoop(r.quantity,
                             [nn EXCEPT ![node].Resources =
                                  setResource(nRes, name, r.available)],
                             name, order, i + 1)
            ELSE zoneLoop(q, nn, name, order, i + 1)

RECURSIVE rangeLoop(_, _, _, _, _)
rangeLoop(res, nn, order, names, rem) ==
    IF names = {}
    THEN [numaNodes |-> nn, remaining |-> rem]
    ELSE LET name == CHOOSE n \in names : TRUE
             r == zoneLoop(res[name], nn, name, order, 1)
         IN rangeLoop(res, r.numaNodes, order, names \ {name},
                      (name :> r.quantity) @@ rem)

subtractFromNUMAs(res, nn, order) == rangeLoop(res, nn, order, DOMAIN res, <<>>)

\* ------------------------------------------------------------------------
\* Inputs of one evaluation
\* ------------------------------------------------------------------------
Requests == UNION {[S -> 0 .. MaxReq] : S \in SUBSET Kinds}

\* Every zone reports memory at full capacity; cpu is optional and ranges
\* over every quantity.
ZoneResources ==
    {m \in UNION {[S -> 0 .. MaxAvail] : S \in {{"memory"}, Kinds}} :
        m["memory"] = MaxAvail}

Inventories ==
    {[z \in Zones |-> [NUMAID |-> z, Resources |-> f[z]]] : f \in [Zones -> ZoneResources]}

\* The callers pass each zone at most once.
Orders ==
    UNION {{o \in [1 .. n -> Zones] : \A i, j \in 1 .. n : o[i] = o[j] => i = j} :
              n \in 0 .. MaxOrderLen}

NoName == "none"

InitSub ==
    /\ resources \in Requests
    /\ numaNodes \in Inventories
    /\ nodes \in Orders
    /\ numaNodes0 = numaNodes
    /\ todo = DOMAIN resources
    /\ resName = NoName
    /\ quantity = 0
    /\ idx = 1
    /\ remaining = <<>>
    /\ decision = "none"
    /\ pc = "filter"

\* ------------------------------------------------------------------------
\* The Single-NUMA-Node filter: admit when the request, subtracted from a
\* copy of the inventory with order = [one zone], leaves nothing unsatisfied.
\* ------------------------------------------------------------------------
fitsInZone(res, nn, z) ==
    LET r == subtractFromNUMAs(res, nn, <<z>>)
    IN \A k \in DOMAIN res : IsZero(r.remaining[k])

singleNUMAFilter(res, nn) ==
    IF \E z \in DOMAIN nn : fitsInZone(res, nn, z) THEN "admit" ELSE "reject"

Filter ==
    /\ pc = "filter"
    /\ decision' = singleNUMAFilter(resources, numaNodes)
    /\ pc' = "range"
    /\ UNCHANGED <<resources, numaNodes, nodes, numaNodes0, todo, resName, quantity,
                   idx, remaining>>
    /\ UNCHANGED newVars

\* ------------------------------------------------------------------------
\* subtractFromNUMAs, one action per loop step
\* ------------------------------------------------------------------------
\* for resName, quantity := range resources
RangeNext ==
    /\ pc = "range"
    /\ \E name \in todo :
        /\ resName' = name
        /\ quantity' = resources[name]
        /\ todo' = todo \ {name}
    /\ idx' = 1
    /\ pc' = "zone"
    /\ UNCHANGED <<resources, numaNodes, nodes, numaNodes0, remaining, decision>>
    /\ UNCHANGED newVars

\* the range is over: the function returns
Return ==
    /\ pc = "range"
    /\ todo = {}
    /\ pc' = "done"
    /\ resName' = NoName
    /\ UNCHANGED <<resources, numaNodes, nodes, numaNodes0, todo, quantity, idx,
                   remaining, decision>>
    /\ UNCHANGED newVars

\* for _, node := range nodes: no zone left
ZoneLoopEnd ==
    /\ pc = "zone"
    /\ idx > Len(nodes)
    /\ remaining' = (resName :> quantity) @@ remaining
    /\ pc' = "range"
    /\ UNCHANGED <<resources, numaNodes, nodes, numaNodes0, todo, resName, quantity,
                   idx, decision>>
    /\ UNCHANGED newVars

\* variant: the break also zeroes the zone's entry
ZeroBreak_zeroes_zone ==
    /\ pc = "zone"
    /\ idx <= Len(nodes)
    /\ IsZero(quantity)
    /\ remaining' = (resName :> quantity) @@ remaining
    /\ numaNodes' =
         IF resName \in DOMAIN numaNodes[nodes[idx]].Resources
         THEN [numaNodes EXCEPT ![nodes[idx]].Resources =
                   setResource(numaNodes[nodes[idx]].Resources, resName, 0)]
         ELSE numaNodes
    /\ pc' = "range"
    /\ UNCHANGED <<resources, nodes, numaNodes0, todo, resName, quantity,
                   idx, decision>>
    /\ UNCHANGED newVars

\* if quantity.IsZero() { break }
ZeroBreak ==
    /\ pc = "zone"
    /\ idx <= Len(nodes)
    /\ IsZero(quantity)
    /\ remaining' = (resName :> quantity) @@ remaining
    /\ pc' = "range"
    /\ UNCHANGED <<resources, numaNodes, nodes, numaNodes0, todo, resName, quantity,
                   idx, decision>>
    /\ UNCHANGED newVars

\* available, ok := nRes[resName] with ok false
ZoneMissing ==
    /\ pc = "zone"
    /\ idx <= Len(nodes)
    /\ ~IsZero(quantity)
    /\ resName \notin DOMAIN numaNodes[nodes[idx]].Resources
    /\ idx' = idx + 1
    /\ UNCHANGED <<resources, numaNodes, nodes, numaNodes0, todo, resName, quantity,
                   remaining, decision, pc>>
    /\ UNCHANGED newVars

\* case 0: the request equals what the zone has
CaseEqual ==
    /\ pc = "zone"
    /\ idx <= Len(nodes)
    /\ ~IsZero(quantity)
    /\ resName \in DOMAIN numaNodes[nodes[idx]].Resources
    /\ Cmp(quantity, numaNodes[nodes[idx]].Resources[resName]) = 0
    /\ LET nRes == numaNodes[nodes[idx]].Resources
           r == SwitchCmp(quantity, nRes[resName])
       IN /\ quantity' = r.quantity
          /\ numaNodes' = [numaNodes EXCEPT ![nodes[idx]].Resources =
                               setResource(nRes, resName, r.available)]
    /\ idx' = idx + 1
    /\ UNCHANGED <<resources, nodes, numaNodes0, todo, resName, remaining, decision, pc>>
    /\ UNCHANGED newVars

\* case 1: the request is more than the zone has
CaseMore ==
    /\ pc = "zone"
    /\ idx <= Len(nodes)
    /\ ~IsZero(quantity)
    /\ resName \in DOMAIN numaNodes[nodes[idx]].Resources
    /\ Cmp(quantity, numaNodes[nodes[idx]].Resources[resName]) = 1
    /\ LET nRes == numaNodes[nodes[idx]].Resources
           r == SwitchCmp(quantity, nRes[resName])
       IN /\ quantity' = r.quantity
          /\ numaNodes' = [numaNodes EXCEPT ![nodes[idx]].Resources =
                               setResource(nRes, resName, r.available)]
    /\ idx' = idx + 1
    /\ UNCHANGED <<resources, nodes, numaNodes0, todo, resName, remaining, decision, pc>>
    /\ UNCHANGED newVars

\* case -1: the zone has more than the request
CaseLess ==
    /\ pc = "zone"
    /\ idx <= Len(nodes)
    /\ ~IsZero(quantity)
    /\ resName \in DOMAIN numaNodes[nodes[idx]].Resources
    /\ Cmp(quantity, numaNodes[nodes[idx]].Resources[resName]) = -1
    /\ LET nRes == numaNodes[nodes[idx]].Resources
           r == SwitchCmp(quantity, nRes[resName])
       IN /\ quantity' = r.quantity
          /\ numaNodes' = [numaNodes EXCEPT ![nodes[idx]].Resources =
                               setResource(nRes, resName, r.available)]
    /\ idx' = idx + 1
    /\ UNCHANGED <<resources, nodes, numaNodes0, todo, resName, remaining, decision, pc>>
    /\ UNCHANGED newVars

NextSub ==
    \/ Filter
    \/ RangeNext
    \/ Return
    \/ ZoneLoopEnd
    \/ ZeroBreak
    \/ ZoneMissing
    \/ CaseEqual
    \/ CaseMore
    \/ CaseLess


\* ------------------------------------------------------------------------
\* Construction of the plugin
\* ------------------------------------------------------------------------
MaxResources == 2
MaxWeight == 1

Name == "NodeResourceTopologyMatch"

LeastNUMANodes == "LeastNUMANodes"

WeightedTypes == {"MostAllocated", "BalancedAllocation", "LeastAllocated"}

ScoringStrategyTypes == {LeastNUMANodes} \cup WeightedTypes \cup {"Unknown"}

PodLevelPolicies ==
    {"SingleNUMANodePodLevel", "BestEffortPodLevel", "RestrictedPodLevel"}

ContainerLevelPolicies ==
    {"SingleNUMANodeContainerLevel", "BestEffortContainerLevel", "RestrictedContainerLevel"}

Policies == PodLevelPolicies \cup ContainerLevelPolicies

\* a scoringFn value: the function, and what a weighted scorer closes over
scoringFn(fn, strategy, weights) == [fn |-> fn, strategy |-> strategy, weights |-> weights]

\* variant: pod-level and container-level scorers exchanged
leastNUMAscoreHandlers_scopes_swapped ==
    [p \in Policies |->
        IF p \in PodLevelPolicies
        THEN scoringFn("leastNUMAContainerScopeScore", "none", <<>>)
        ELSE scoringFn("leastNUMAPodScopeScore", "none", <<>>)]

\* variant: only the Single-NUMA-Node policies are registered
leastNUMAscoreHandlers_single_only ==
    [p \in {"SingleNUMANodePodLevel", "SingleNUMANodeContainerLevel"} |->
        IF p \in PodLevelPolicies
        THEN scoringFn("leastNUMAPodScopeScore", "none", <<>>)
        ELSE scoringFn("leastNUMAContainerScopeScore", "none", <<>>)]

leastNUMAscoreHandlers ==
    ("SingleNUMANodePodLevel" :> scoringFn("leastNUMAPodScopeScore", "none", <<>>))
    @@ ("SingleNUMANodeContainerLevel" :> scoringFn("leastNUMAContainerScopeScore", "none", <<>>))
    @@ ("BestEffortPodLevel" :> scoringFn("leastNUMAPodScopeScore", "none", <<>>))
    @@ ("BestEffortContainerLevel" :> scoringFn("leastNUMAContainerScopeScore", "none", <<>>))
    @@ ("RestrictedPodLevel" :> scoringFn("leastNUMAPodScopeScore", "none", <<>>))
    @@ ("RestrictedContainerLevel" :> scoringFn("leastNUMAContainerScopeScore", "none", <<>>))

\* Collaborators of New that live in other files of the package.
newFilterHandlers ==
    [p \in Policies |->
        IF p \in PodLevelPolicies THEN "podLevelFilter" ELSE "containerLevelFilter"]

getScoringStrategyFunction(type) ==
    IF type \in WeightedTypes
    THEN [strategy |-> type, err |-> "nil"]
    ELSE [strategy |-> "none", err |-> "illegal scoring strategy"]

newScoringHandlers(strategy, resToWeightMap) ==
    [p \in Policies |->
        IF p \in PodLevelPolicies
        THEN scoringFn("podScopeScore", strategy, resToWeightMap)
        ELSE scoringFn("containerScopeScore", strategy, resToWeightMap)]

initNodeTopologyInformer(a) ==
    IF a.handleOk
    THEN [nrtCache |-> "cache", err |-> "nil"]
    ELSE [nrtCache |-> "none", err |-> "cannot create informer"]

\* for _, resource := range tcfg.ScoringStrategy.Resources { m[Name] = Weight }
RECURSIVE weightLoop(_, _, _)
weightLoop(rs, i, m) ==
    IF i > Len(rs) THEN m
    ELSE weightLoop(rs, i + 1, setResource(m, rs[i].Name, rs[i].Weight))

NoPlugin == <<>>

New(a) ==
    IF ~a.isArgs
    THEN [plugin |-> NoPlugin, err |-> "want args to be of type NodeResourceTopologyMatchArgs"]
    ELSE LET inf == initNodeTopologyInformer(a)
         IN IF inf.err # "nil"
            THEN [plugin |-> NoPlugin, err |-> inf.err]
            ELSE LET resToWeightMap == weightLoop(a.Resources, 1, <<>>)
                     s == getScoringStrategyFunction(a.Type)
                 IN IF a.Type # LeastNUMANodes /\ s.err # "nil"
                    THEN [plugin |-> NoPlugin, err |-> s.err]
                    ELSE [plugin |->
                            <<[filterHandlers |-> newFilterHandlers,
                               scoringHandlers |->
                                   IF a.Type = LeastNUMANodes
                                   THEN leastNUMAscoreHandlers
                                   ELSE newScoringHandlers(s.strategy, resToWeightMap),
                               resourceToWeightMap |-> resToWeightMap,
                               nrtCache |-> inf.nrtCache]>>,
                          err |-> "nil"]

ResourceSpecs == [Name : Kinds, Weight : 0 .. MaxWeight]

ResourceLists == UNION {[1 .. n -> ResourceSpecs] : n \in 0 .. MaxResources}

\* args that are not a *NodeResourceTopologyMatchArgs carry no configuration
WrongArgs == [isArgs |-> FALSE, handleOk |-> TRUE, Type |-> "Unknown", Resources |-> <<>>]

Args ==
    {WrongArgs} \cup
    [isArgs : {TRUE}, handleOk : BOOLEAN, Type : ScoringStrategyTypes,
     Resources : ResourceLists]

InitNewIdle ==
    /\ args = WrongArgs
    /\ plugin = NoPlugin
    /\ err = "nil"
    /\ ret = <<>>

InitSubIdle ==
    /\ resources = <<>>
    /\ numaNodes = <<>>
    /\ nodes = <<>>
    /\ numaNodes0 = <<>>
    /\ todo = {}
    /\ resName = NoName
    /\ quantity = 0
    /\ idx = 1
    /\ remaining = <<>>
    /\ decision = "none"
    /\ pc = "new"

InitNew ==
    /\ InitSubIdle
    /\ args \in Args
    /\ plugin = NoPlugin
    /\ err = "nil"
    /\ ret = <<>>

CallNew ==
    /\ pc = "new"
    /\ plugin' = New(args).plugin
    /\ err' = New(args).err
    /\ pc' = IF New(args).err = "nil" THEN "serving" ELSE "failed"
    /\ UNCHANGED <<args, ret>>
    /\ UNCHANGED <<resources, numaNodes, nodes, numaNodes0, todo, resName, quantity,
                   idx, remaining, decision>>

\* func (tm *TopologyMatch) Name() string
CallName ==
    /\ pc = "serving"
    /\ ret' = <<"Name", Name>>
    /\ UNCHANGED <<args, plugin, err>>
    /\ UNCHANGED subVars

EventsToRegister ==
    <<[Resource |-> "Pod", ActionType |-> {"Delete"}],
      [Resource |-> "Node", ActionType |-> {"Add", "UpdateNodeAllocatable"}],
      [Resource |-> "noderesourcetopologies.v1alpha1.topology.node.k8s.io",
       ActionType |-> {"Add", "Update"}]>>

CallEventsToRegister ==
    /\ pc = "serving"
    /\ ret' = <<"EventsToRegister", EventsToRegister>>
    /\ UNCHANGED <<args, plugin, err>>
    /\ UNCHANGED subVars

\* dispatch of a request on the node's policy: the table entry is looked up
lookup(table, policy) ==
    IF policy \in DOMAIN table THEN <<table[policy]>> ELSE <<>>

DispatchFilter ==
    /\ pc = "serving"
    /\ \E policy \in Policies :
        ret' = <<"Filter", policy, lookup(plugin[1].filterHandlers, policy)>>
    /\ UNCHANGED <<args, plugin, err>>
    /\ UNCHANGED subVars

DispatchScore ==
    /\ pc = "serving"
    /\ \E policy \in Policies :
        ret' = <<"Score", policy, lookup(plugin[1].scoringHandlers, policy)>>
    /\ UNCHANGED <<args, plugin, err>>
    /\ UNCHANGED subVars

NextNew ==
    \/ CallNew
    \/ CallName
    \/ CallEventsToRegister
    \/ DispatchFilter
    \/ DispatchScore

Init == InitSub /\ InitNewIdle

Next == NextSub

Spec == Init /\ [][Next]_vars

SpecNew == InitNew /\ [][NextNew]_vars

\* ------------------------------------------------------------------------
\* Properties of subtractFromNUMAs (specification Spec)
\* ------------------------------------------------------------------------
Range(s) == {s[i] : i \in DOMAIN s}

Min(a, b) == IF a < b THEN a ELSE b

\* what zone z has of kind k; a zone without an entry has nothing of it
Avail(nn, z, k) == IF k \in DOMAIN nn[z].Resources THEN nn[z].Resources[k] ELSE 0

RECURSIVE Total(_, _, _)
Total(nn, k, S) ==
    IF S = {} THEN 0
    ELSE LET z == CHOOSE x \in S : TRUE
         IN Avail(nn, z, k) + Total(nn, k, S \ {z})

Subtracted(k) == Total(numaNodes0, k, Zones) - Total(numaNodes, k, Zones)

\* C1 as stated: after the call, for every requested kind, the total
\* subtracted over all zones is at most the inventory's total of the kind and
\* equals min(requested, total of the kind in the whole inventory).
C1_ConservationWholeInventory ==
    pc = "done" =>
        \A k \in DOMAIN resources :
            /\ Subtracted(k) <= Total(numaNodes0, k, Zones)
            /\ Subtracted(k) = Min(resources[k], Total(numaNodes0, k, Zones))

\* C1 amended: after the call, for every requested kind, the total subtracted
\* over all zones is at most the inventory's total of the kind and equals
\* min(requested, total of the kind in the zones the order names).
C1_Conservation ==
    pc = "done" =>
        \A k \in DOMAIN resources :
            /\ Subtracted(k) <= Total(numaNodes0, k, Zones)
            /\ Subtracted(k) = Min(resources[k], Total(numaNodes0, k, Range(nodes)))

C1_Witness ==
    /\ pc = "done"
    /\ Range(nodes) # Zones
    /\ \E k \in DOMAIN resources :
        /\ Total(numaNodes0, k, Range(nodes)) > 0
        /\ resources[k] > Total(numaNodes0, k, Range(nodes))
        /\ resources[k] <= Total(numaNodes0, k, Zones)
        /\ Subtracted(k) = Total(numaNodes0, k, Range(nodes))

\* C2: the Single-NUMA-Node filter admits exactly when some single zone
\* has, for every requested kind, at least the requested quantity, and
\* rejects otherwise.
Qualifies(z) == \A k \in DOMAIN resources : Avail(numaNodes0, z, k) >= resources[k]

C2_SingleZoneContainment ==
    decision # "none" =>
        /\ decision \in {"admit", "reject"}
        /\ (decision = "admit") <=> (\E z \in Zones : Qualifies(z))

\* a request no single zone holds although the zones together would
C2_Witness ==
    /\ decision = "reject"
    /\ resources # <<>>
    /\ \A k \in DOMAIN resources :
        resources[k] > 0 /\ Total(numaNodes0, k, Zones) >= resources[k]

\* C3: the same request on the same inventory with the zones of the order
\* permuted leaves, for every requested kind, the same unsatisfied amount and
\* the same total remaining across the zones.
Perms(s) ==
    {[i \in DOMAIN s |-> s[f[i]]] :
        f \in {g \in [DOMAIN s -> DOMAIN s] : \A i, j \in DOMAIN s : g[i] = g[j] => i = j}}

C3_OrderInsensitiveAggregate ==
    pc = "done" =>
        \A other \in Perms(nodes) :
            LET r == subtractFromNUMAs(resources, numaNodes0, other)
            IN \A k \in DOMAIN resources :
                /\ remaining[k] = r.remaining[k]
                /\ Total(numaNodes, k, Zones) = Total(r.numaNodes, k, Zones)

\* the other order leaves different per-zone residuals, with part of the
\* request unsatisfied
C3_Witness ==
    /\ pc = "done"
    /\ \E other \in Perms(nodes) :
        /\ other # nodes
        /\ subtractFromNUMAs(resources, numaNodes0, other).numaNodes # numaNodes
    /\ \E k \in DOMAIN resources : resources[k] > 0

\* C4: a request whose quantities are all zero leaves every zone's quantity
\* of every kind unchanged, at every step of the call.
C4_ZeroRequestNoOp ==
    (\A k \in DOMAIN resources : resources[k] = 0) => numaNodes = numaNodes0

C4_Witness ==
    /\ pc = "done"
    /\ DOMAIN resources = Kinds
    /\ \A k \in Kinds : resources[k] = 0
    /\ Range(nodes) = Zones
    /\ \A z \in Zones : Avail(numaNodes0, z, "cpu") > 0

\* C8: every step of the call leaves every zone quantity (and the remaining
\* request) non-negative; a step on a zone that has less than the remaining
\* request sets the zone to zero and carries request minus available on.
ZoneHasLess ==
    /\ pc = "zone"
    /\ idx <= Len(nodes)
    /\ resName \in DOMAIN numaNodes[nodes[idx]].Resources
    /\ quantity > numaNodes[nodes[idx]].Resources[resName]

C8_NonNegative ==
    [][/\ \A z \in Zones : \A k \in DOMAIN numaNodes'[z].Resources :
            numaNodes'[z].Resources[k] >= 0
       /\ quantity' >= 0
       /\ ZoneHasLess =>
            /\ numaNodes'[nodes[idx]].Resources[resName] = 0
            /\ quantity' = quantity - numaNodes[nodes[idx]].Resources[resName]
            /\ idx' = idx + 1
            /\ pc' = "zone"]_vars

\* a zone was clamped and the remainder is being carried to the next zone
C8_Witness ==
    /\ pc = "zone"
    /\ idx = 2
    /\ idx <= Len(nodes)
    /\ nodes[1] # nodes[2]
    /\ Avail(numaNodes0, nodes[1], resName) > 0
    /\ Avail(numaNodes, nodes[1], resName) = 0
    /\ quantity > 0
    /\ quantity = resources[resName] - Avail(numaNodes0, nodes[1], resName)

\* C9: no step adds a resource kind to a zone or removes one, and a step on
\* a zone that has no more than the remaining request leaves the zone's
\* entry present with value zero.
ZoneHasNoMore ==
    /\ pc = "zone"
    /\ idx <= Len(nodes)
    /\ ~IsZero(quantity)
    /\ resName \in DOMAIN numaNodes[nodes[idx]].Resources
    /\ quantity >= numaNodes[nodes[idx]].Resources[resName]

C9_ExhaustedEntryStaysZero ==
    [][/\ \A z \in Zones : DOMAIN numaNodes'[z].Resources = DOMAIN numaNodes[z].Resources
       /\ ZoneHasNoMore =>
            /\ resName \in DOMAIN numaNodes'[nodes[idx]].Resources
            /\ numaNodes'[nodes[idx]].Resources[resName] = 0]_vars

\* the request equalled what the single zone of the order had
C9_Witness ==
    /\ pc = "done"
    /\ Len(nodes) = 1
    /\ "cpu" \in DOMAIN resources
    /\ resources["cpu"] > 0
    /\ Avail(numaNodes0, nodes[1], "cpu") = resources["cpu"]
    /\ "cpu" \in DOMAIN numaNodes[nodes[1]].Resources
    /\ numaNodes[nodes[1]].Resources["cpu"] = 0

\* C10: at every step, a zone's quantity of a kind is below its value at
\* entry only if the kind is requested, the zone is in the order and every
\* zone before its first position in the order has nothing of the kind left;
\* at most one zone per kind is partially consumed; every other quantity is
\* unchanged.  With one unit of cpu = 2 cores and one unit of memory = 4Gi,
\* zones 0 and 1 each {cpu: 2, memory: 2}, request {cpu: 3, memory: 1} and
\* order [0, 1] leave zone 0 = {cpu: 0, memory: 1}, zone 1 = {cpu: 1, memory: 2}.
FirstPos(z) == CHOOSE i \in DOMAIN nodes : nodes[i] = z /\ \A j \in 1 .. (i - 1) : nodes[j] # z

ExampleRequest == ("cpu" :> 3) @@ ("memory" :> 1)

ExampleZone == ("cpu" :> 2) @@ ("memory" :> 2)

IsExample ==
    /\ resources = ExampleRequest
    /\ nodes = <<0, 1>>
    /\ numaNodes0[0].Resources = ExampleZone
    /\ numaNodes0[1].Resources = ExampleZone

C10_GreedyInOrder ==
    /\ \A k \in Kinds : \A z \in Zones :
        /\ DOMAIN numaNodes[z].Resources = DOMAIN numaNodes0[z].Resources
        /\ Avail(numaNodes, z, k) <= Avail(numaNodes0, z, k)
        /\ Avail(numaNodes, z, k) < Avail(numaNodes0, z, k) =>
            /\ k \in DOMAIN resources
            /\ z \in Range(nodes)
            /\ \A j \in 1 .. (FirstPos(z) - 1) : Avail(numaNodes, nodes[j], k) = 0
    /\ \A k \in Kinds :
        Cardinality({z \in Zones : /\ 0 < Avail(numaNodes, z, k)
                                   /\ Avail(numaNodes, z, k) < Avail(numaNodes0, z, k)}) <= 1
    /\ (pc = "done" /\ IsExample) =>
        /\ numaNodes[0].Resources = ("cpu" :> 0) @@ ("memory" :> 1)
        /\ numaNodes[1].Resources = ("cpu" :> 1) @@ ("memory" :> 2)

C10_Witness ==
    /\ pc = "done"
    /\ IsExample
    /\ numaNodes[0].Resources["cpu"] = 0
    /\ numaNodes[1].Resources["cpu"] = 1

MalformedWeights(rs) == \E i \in DOMAIN rs : rs[i].Weight <= 0

Unresolvable(a) ==
    \/ ~a.isArgs
    \/ ~a.handleOk
    \/ a.Type \notin ({LeastNUMANodes} \cup WeightedTypes)
    \/ MalformedWeights(a.Resources)

C6_AllOrNothing ==
    pc # "new" =>
        /\ Unresolvable(args) => (err # "nil" /\ plugin = NoPlugin)
        /\ (err # "nil") <=> (plugin = NoPlugin)
        /\ plugin # NoPlugin =>
            /\ DOMAIN plugin[1].filterHandlers # {}
            /\ DOMAIN plugin[1].scoringHandlers # {}
            /\ DOMAIN plugin[1].resourceToWeightMap = {args.Resources[i].Name : i \in DOMAIN args.Resources}
            /\ plugin[1].nrtCache # "none"

\* C7: the score table of a constructed plugin is, in every state, the one
\* the configured type selects: for LeastNUMANodes, whatever the configured
\* weights, every Pod-level policy has the least-zones pod-scope scorer and
\* every Container-level policy the least-zones container-scope scorer; for
\* any other supported type every policy has a scorer built from that
\* strategy and the resource-to-weight map.
C7_StrategySelection ==
    plugin # NoPlugin =>
        LET table == plugin[1].scoringHandlers
        IN /\ DOMAIN table = Policies
           /\ args.Type = LeastNUMANodes =>
                /\ \A p \in PodLevelPolicies : table[p].fn = "leastNUMAPodScopeScore"
                /\ \A p \in ContainerLevelPolicies :
                        table[p].fn = "leastNUMAContainerScopeScore"
                /\ \A p \in Policies : table[p].weights = <<>> /\ table[p].strategy = "none"
           /\ args.Type # LeastNUMANodes =>
                /\ args.Type \in WeightedTypes
                /\ \A p \in Policies :
                    /\ table[p].strategy = args.Type
                    /\ table[p].weights = plugin[1].resourceToWeightMap
                    /\ table[p].fn \in {"podScopeScore", "containerScopeScore"}

\* least-zones strategy with weights configured, after a request was scored
C7_Witness ==
    /\ plugin # NoPlugin
    /\ args.Type = LeastNUMANodes
    /\ args.Resources # <<>>
    /\ plugin[1].resourceToWeightMap # <<>>
    /\ Len(ret) = 3
    /\ ret[1] = "Score"
    /\ ret[2] = "BestEffortPodLevel"
    /\ ret[3] = <<scoringFn("leastNUMAPodScopeScore", "none", <<>>)>>

====
